---- MODULE Spec2Model ----
(***************************************************************************)
(* Model of huecli (src/main.rs): one invocation of the command-line       *)
(* client.  The state is the parsed arguments, the configuration file, the *)
(* program position, everything printed, and the log of collaborator calls *)
(* (discover_upnp, register_user, get_light, get_all_lights,               *)
(* set_light_state, thread::sleep) with the answers they gave.             *)
(*                                                                         *)
(* Option<T> is a sequence of length 0 (None) or 1 (Some(x)).              *)
(* The --verbose echo lines are not part of `out`: they change no control  *)
(* flow and no collaborator call.                                          *)
(***************************************************************************)
EXTENDS Integers, Sequences, FiniteSets, TLC

VARIABLES
    pc,             \* "main", "dispatch", "register_loop", "done", "panic"
    args,           \* Args: the parsed command line
    file,           \* the configuration file on disk
    conf,           \* Result of load_config once main has run
    bridgeAnswers,  \* the answers the bridge gives to register_user, in order
    regBridge,      \* try_register's local `bridge`
    result,         \* Ok(user) of register_loop, Option<String>
    target,         \* Bridge::new(bridge, user), Option<(bridge, user)>
    out,            \* lines printed, in order
    trace           \* collaborator calls and sleeps, in order

vars == <<pc, args, file, conf, bridgeAnswers, regBridge, result, target, out, trace>>

----------------------------------------------------------------------------
(* Bounds of the model *)

\* largest number of link-button-not-pressed answers before the final answer
MaxRetries == 3
\* longest list of addresses a discovery returns
MaxIps == 3

(* Program constants *)

\* Duration::from_secs(5)
RetrySecs == 5
\* 10000000u32
TenMillion == 10000000
\* 1000000u32
OneMillion == 1000000
\* u16 modulus of the `as u16` cast
U16 == 65536

None == <<>>
Some(x) == <<x>>
Opt(S) == {None} \cup {Some(x) : x \in S}

----------------------------------------------------------------------------
(* Input domains *)

Addrs == {"10.0.0.1", "10.0.0.2"}
CliBridges == {"10.0.0.7"}
CfgBridges == {"10.0.0.9"}
CliUsers == {"cliuser"}
CfgUsers == {"cfguser"}
Tokens == {"tok1", "tok2"}
Ids == {1, 2}
\* --ct values: u32, 0 included; 100 and 152 overflow the u16 mired field
Kelvins == {0, 100, 152, 153, 2700, 6500, 20000000}
\* ct values a light reports (u16 mired)
Mireds == {0, 366}

SeqsUpTo(S, n) == UNION {[1..k -> S] : k \in 0..n}

\* Command::Light's flattened LightState
LightStates ==
    [turn : Opt({"on", "off"}), bri : Opt({100}), hue : Opt({5}),
     sat : Opt({7}), ct : Opt(Kelvins)]

NoState == [turn |-> None, bri |-> None, hue |-> None, sat |-> None, ct |-> None]

\* struct Args / enum Command
ArgsSet ==
    {[cmd |-> "discover", bridge |-> None, user |-> None, id |-> None,
      device_type |-> "", state |-> NoState]}
    \cup
    {[cmd |-> "register", bridge |-> b, user |-> None, id |-> None,
      device_type |-> "huecli", state |-> NoState] : b \in Opt(CliBridges)}
    \cup
    {[cmd |-> "show", bridge |-> b, user |-> u, id |-> i,
      device_type |-> "", state |-> NoState] :
        b \in Opt(CliBridges), u \in Opt(CliUsers), i \in Opt(Ids)}
    \cup
    {[cmd |-> "light", bridge |-> b, user |-> u, id |-> Some(i),
      device_type |-> "", state |-> s] :
        b \in Opt(CliBridges), u \in Opt(CliUsers), i \in {1}, s \in LightStates}

\* the file at <config-dir>/hue-cli/default.toml
Files ==
    {[cond |-> "missing", bridge |-> None, user |-> None],
     [cond |-> "unreadable", bridge |-> None, user |-> None],
     [cond |-> "malformed", bridge |-> None, user |-> None],
     [cond |-> "no_config_dir", bridge |-> None, user |-> None]}
    \cup
    {[cond |-> "valid", bridge |-> b, user |-> u] :
        b \in Opt(CfgBridges), u \in Opt(CfgUsers)}

\* answers of register_user: n times link-button-not-pressed, then a final one
Link == [kind |-> "LinkButtonNotPressed", user |-> ""]
Finals == {[kind |-> "Ok", user |-> t] : t \in Tokens}
          \cup {[kind |-> "Other", user |-> ""]}
AnswerScripts ==
    {[i \in 1..(n + 1) |-> IF i <= n THEN Link ELSE f] :
        n \in 0..MaxRetries, f \in Finals}

Call(op, bridge, user, id, arg, resp) ==
    [op |-> op, bridge |-> bridge, user |-> user, id |-> id, arg |-> arg,
     resp |-> resp]

----------------------------------------------------------------------------
(* Configuration *)

\* get_config_path: None when the platform has no configuration directory
get_config_path(f) ==
    IF f.cond = "no_config_dir" THEN None ELSE Some("hue-cli/default.toml")

\* config::Config::new(): no key is set
no_config == [ok |-> TRUE, bridge |-> None, user |-> None]

\* conf.merge(config::File::with_name(path)): a file that cannot be found or
\* read fails as Foreign, a file that does not parse fails as FileParse
merge(f) ==
    CASE f.cond = "valid" -> [kind |-> "Ok", bridge |-> f.bridge, user |-> f.user]
      [] f.cond \in {"missing", "unreadable"} ->
            [kind |-> "Foreign", bridge |-> None, user |-> None]
      [] f.cond = "malformed" ->
            [kind |-> "FileParse", bridge |-> None, user |-> None]

load_config(f) ==
    LET m == merge(f) IN
    CASE m.kind = "Ok" -> [ok |-> TRUE, bridge |-> m.bridge, user |-> m.user]
      [] m.kind = "NotFound" -> no_config
      [] m.kind = "Foreign" -> no_config
      [] OTHER -> [ok |-> FALSE, bridge |-> None, user |-> None]

\* v1.as_ref().map(|s| s.to_string()).or(v2)
\* mutation: the configuration file wins over the command line
or_config_swapped(v1, v2) == IF v2 # None THEN v2 ELSE v1

\* mutation: an absent value resolves to the empty string
or_config_or_default(v1, v2) ==
    IF v1 # None THEN v1 ELSE IF v2 # None THEN v2 ELSE Some("")

or_config(v1, v2) == IF v1 # None THEN v1 ELSE v2

\* main: load the configuration, then dispatch or print the error
Main ==
    /\ pc = "main"
    /\ LET c == IF get_config_path(file) # None THEN load_config(file)
                ELSE no_config
       IN /\ conf' = c
          /\ IF c.ok
             THEN /\ pc' = "dispatch"
                  /\ out' = out
             ELSE /\ pc' = "done"
                  /\ out' = Append(out, <<"Configuration error">>)
    /\ UNCHANGED <<args, file, bridgeAnswers, regBridge, result, target, trace>>

----------------------------------------------------------------------------
(* discover *)

\* bridge::discover_upnp(): Err, or Ok(list of addresses)
DiscoverResults ==
    {[ok |-> FALSE, ips |-> <<>>]}
    \cup {[ok |-> TRUE, ips |-> v] : v \in SeqsUpTo(Addrs, MaxIps)}

\* Vec::dedup: removes consecutive repeated elements
RECURSIVE dedup(_)
dedup(v) ==
    IF Len(v) <= 1 THEN v
    ELSE LET rest == dedup(Tail(v)) IN
         IF Head(v) = Head(rest) THEN rest ELSE <<Head(v)>> \o rest

\* discover: discover_upnp().unwrap(), dedup, print
Discover ==
    /\ pc = "dispatch"
    /\ args.cmd = "discover"
    /\ \E r \in DiscoverResults :
        /\ trace' = Append(trace, Call("discover_upnp", None, None, None, None, r))
        /\ IF r.ok
           THEN /\ out' = Append(out, <<"Hue bridges found", dedup(r.ips)>>)
                /\ pc' = "done"
           ELSE /\ out' = out
                /\ pc' = "panic"
    /\ UNCHANGED <<args, file, conf, bridgeAnswers, regBridge, result, target>>

----------------------------------------------------------------------------
(* register *)

\* mutation: the last address instead of the first
last(v) == IF Len(v) = 0 THEN None ELSE Some(v[Len(v)])

\* v.first()
first(v) == IF Len(v) = 0 THEN None ELSE Some(v[1])

\* try_register with --bridge: no discovery
TryRegisterGiven ==
    /\ pc = "dispatch"
    /\ args.cmd = "register"
    /\ args.bridge # None
    /\ regBridge' = args.bridge
    /\ pc' = "register_loop"
    /\ UNCHANGED <<args, file, conf, bridgeAnswers, result, target, out, trace>>

\* try_register without --bridge: discover, take the first address or fail;
\* the Err is printed by register
TryRegisterDiscover ==
    /\ pc = "dispatch"
    /\ args.cmd = "register"
    /\ args.bridge = None
    /\ \E r \in DiscoverResults :
        /\ trace' = Append(trace, Call("discover_upnp", None, None, None, None, r))
        /\ IF ~r.ok
           THEN /\ out' = Append(out, <<"Failto register user", "discover error">>)
                /\ regBridge' = regBridge
                /\ pc' = "done"
           ELSE IF first(r.ips) = None
           THEN /\ out' = Append(out, <<"Failto register user", "No bridge found">>)
                /\ regBridge' = regBridge
                /\ pc' = "done"
           ELSE /\ out' = out
                /\ regBridge' = first(r.ips)
                /\ pc' = "register_loop"
    /\ UNCHANGED <<args, file, conf, bridgeAnswers, result, target>>

\* number of register_user calls made so far
Attempts == Len(SelectSeq(trace, LAMBDA e : e.op = "register_user"))

\* the answer the bridge gives to the next register_user call
NextAnswer == bridgeAnswers[Attempts + 1]

RegisterCall(a) ==
    Call("register_user", regBridge[1], None, None, args.device_type, a)

\* register_loop, Ok arm: break with the user; register prints it
RegisterOk ==
    /\ pc = "register_loop"
    /\ Attempts < Len(bridgeAnswers)
    /\ NextAnswer.kind = "Ok"
    /\ trace' = Append(trace, RegisterCall(NextAnswer))
    /\ result' = Some(NextAnswer.user)
    /\ out' = Append(out, <<"Successfully user regestered", NextAnswer.user,
                            regBridge[1]>>)
    /\ pc' = "done"
    /\ UNCHANGED <<args, file, conf, bridgeAnswers, regBridge, target>>

\* mutation: retry at once, without the sleep
RegisterLinkButtonNoSleep ==
    /\ pc = "register_loop"
    /\ Attempts < Len(bridgeAnswers)
    /\ NextAnswer.kind = "LinkButtonNotPressed"
    /\ trace' = Append(trace, RegisterCall(NextAnswer))
    /\ out' = Append(out, <<"Please, press the link on the bridge">>)
    /\ pc' = "register_loop"
    /\ UNCHANGED <<args, file, conf, bridgeAnswers, regBridge, result, target>>

\* register_loop, LinkButtonNotPressed arm: print, sleep 5 seconds, loop
RegisterLinkButtonNotPressed ==
    /\ pc = "register_loop"
    /\ Attempts < Len(bridgeAnswers)
    /\ NextAnswer.kind = "LinkButtonNotPressed"
    /\ trace' = trace \o <<RegisterCall(NextAnswer),
                           Call("sleep", None, None, None, RetrySecs, None)>>
    /\ out' = Append(out, <<"Please, press the link on the bridge">>)
    /\ pc' = "register_loop"
    /\ UNCHANGED <<args, file, conf, bridgeAnswers, regBridge, result, target>>

\* mutation: every Err is retried like LinkButtonNotPressed
RegisterUnexpectedRetried ==
    /\ pc = "register_loop"
    /\ Attempts < Len(bridgeAnswers)
    /\ NextAnswer.kind = "Other"
    /\ trace' = trace \o <<RegisterCall(NextAnswer),
                           Call("sleep", None, None, None, RetrySecs, None)>>
    /\ out' = Append(out, <<"Please, press the link on the bridge">>)
    /\ pc' = "register_loop"
    /\ UNCHANGED <<args, file, conf, bridgeAnswers, regBridge, result, target>>

\* register_loop, any other Err: return it; register prints it
RegisterUnexpected ==
    /\ pc = "register_loop"
    /\ Attempts < Len(bridgeAnswers)
    /\ NextAnswer.kind = "Other"
    /\ trace' = Append(trace, RegisterCall(NextAnswer))
    /\ out' = Append(out, <<"Failto register user", "Unexpected error occured">>)
    /\ pc' = "done"
    /\ UNCHANGED <<args, file, conf, bridgeAnswers, regBridge, result, target>>

----------------------------------------------------------------------------
(* show *)

\* Show(&Option<T>): the value, or "N/A"
Show(o) == IF o = None THEN "N/A" ELSE o[1]

\* .map(|ct| 1000000u32 / ct as u32); the division panics on ct = 0
kelvin_panics(ct) == ct # None /\ ct[1] = 0
kelvin(ct) == IF ct = None THEN None ELSE Some(OneMillion \div ct[1])

\* get_light: Err, or Ok(light); only the light's ct is modelled
GetLightResults ==
    {[ok |-> FALSE, ct |-> None]} \cup {[ok |-> TRUE, ct |-> c] : c \in Opt(Mireds)}

\* get_all_lights: Err, or Ok(map id -> light)
GetAllLightsResults ==
    {[ok |-> FALSE, lights |-> <<>>]}
    \cup {[ok |-> TRUE, lights |-> m] :
            m \in UNION {[S -> Opt(Mireds)] : S \in SUBSET Ids}}

\* the ids of a map in iteration (ascending) order
RECURSIVE SortedIds(_)
SortedIds(S) ==
    IF S = {} THEN <<>>
    ELSE LET m == CHOOSE x \in S : \A y \in S : x <= y
         IN <<m>> \o SortedIds(S \ {m})

\* the rows lights_get_all prints before it ends or panics
RECURSIVE Rows(_, _)
Rows(ids, lights) ==
    IF ids = <<>> \/ kelvin_panics(lights[Head(ids)]) THEN <<>>
    ELSE <<<<"row", Head(ids), Show(kelvin(lights[Head(ids)]))>>>>
         \o Rows(Tail(ids), lights)

\* lights_get_all
lights_get_all(h, u) ==
    \E r \in GetAllLightsResults :
        /\ trace' = Append(trace, Call("get_all_lights", h, u, None, None, r))
        /\ IF ~r.ok
           THEN /\ out' = Append(out, <<"Error">>)
                /\ pc' = "done"
           ELSE /\ out' = out \o <<<<"header">>>>
                             \o Rows(SortedIds(DOMAIN r.lights), r.lights)
                /\ pc' = IF \E i \in DOMAIN r.lights : kelvin_panics(r.lights[i])
                         THEN "panic" ELSE "done"

\* lights_get
lights_get(h, u, id) ==
    \E r \in GetLightResults :
        /\ trace' = Append(trace, Call("get_light", h, u, id, None, r))
        /\ IF ~r.ok
           THEN /\ out' = Append(out, <<"Error">>)
                /\ pc' = "done"
           ELSE IF kelvin_panics(r.ct)
           THEN /\ out' = out
                /\ pc' = "panic"
           ELSE /\ out' = Append(out, <<"light", id, Show(kelvin(r.ct))>>)
                /\ pc' = "done"

\* dispatch, Command::Show, with lights_show
DispatchShow ==
    /\ pc = "dispatch"
    /\ args.cmd = "show"
    /\ LET bridge == or_config(args.bridge, conf.bridge)
           user == or_config(args.user, conf.user)
       IN IF bridge # None /\ user # None
          THEN /\ target' = Some(<<bridge[1], user[1]>>)
               /\ IF args.id = None
                  THEN lights_get_all(bridge[1], user[1])
                  ELSE lights_get(bridge[1], user[1], args.id[1])
          ELSE /\ out' = Append(out, <<"User and bridge must be specified">>)
               /\ pc' = "done"
               /\ UNCHANGED <<target, trace>>
    /\ UNCHANGED <<args, file, conf, bridgeAnswers, regBridge, result>>

----------------------------------------------------------------------------
(* light *)

\* LightCommand::default()
DefaultCommand ==
    [on |-> None, bri |-> None, hue |-> None, sat |-> None, ct |-> None]

\* (10000000u32 / ct) as u16; the division panics on ct = 0
mired(ct) == (TenMillion \div ct) % U16

\* the LightCommand light_set builds from the flags
build_command(state) ==
    [on |-> IF state.turn = None THEN None ELSE Some(state.turn[1] = "on"),
     bri |-> state.bri,
     hue |-> state.hue,
     sat |-> state.sat,
     ct |-> IF state.ct = None THEN None ELSE Some(mired(state.ct[1]))]

\* set_light_state: Err, or Ok(responses)
SetResults == {[ok |-> FALSE], [ok |-> TRUE]}

\* light_set
light_set(h, u, id, state) ==
    /\ target' = Some(<<h, u>>)
    /\ IF state.ct = Some(0)
       THEN /\ pc' = "panic"
            /\ UNCHANGED <<out, trace>>
       ELSE \E r \in SetResults :
            /\ trace' = Append(trace, Call("set_light_state", h, u, id,
                                           build_command(state), r))
            /\ out' = Append(out, IF r.ok THEN <<"responses">> ELSE <<"Error">>)
            /\ pc' = "done"

\* dispatch, Command::Light
DispatchLight ==
    /\ pc = "dispatch"
    /\ args.cmd = "light"
    /\ LET bridge == or_config(args.bridge, conf.bridge)
           user == or_config(args.user, conf.user)
       IN IF bridge # None /\ user # None
          THEN light_set(bridge[1], user[1], args.id[1], args.state)
          ELSE /\ out' = Append(out, <<"User and bridge must be specified">>)
               /\ pc' = "done"
               /\ UNCHANGED <<target, trace>>
    /\ UNCHANGED <<args, file, conf, bridgeAnswers, regBridge, result>>

----------------------------------------------------------------------------
(* The program *)

Init ==
    /\ pc = "main"
    /\ args \in ArgsSet
    /\ file \in Files
    /\ conf = no_config
    /\ bridgeAnswers \in
         IF args.cmd = "register" THEN AnswerScripts ELSE {<<>>}
    /\ regBridge = None
    /\ result = None
    /\ target = None
    /\ out = <<>>
    /\ trace = <<>>

Next ==
    \/ Main
    \/ Discover
    \/ TryRegisterGiven
    \/ TryRegisterDiscover
    \/ RegisterOk
    \/ RegisterLinkButtonNotPressed
    \/ RegisterUnexpected
    \/ DispatchShow
    \/ DispatchLight

Spec == Init /\ [][Next]_vars

----------------------------------------------------------------------------
(* Properties *)

Ops(op) == SelectSeq(trace, LAMBDA e : e.op = op)

Printed(line) == \E i \in 1..Len(out) : out[i][1] = line

\* the run has left main and dispatch was entered
Dispatched == pc \notin {"main", "dispatch"} /\ conf.ok

\* the value the configuration file holds for a key, if the file is usable
FileBridge == IF file.cond = "valid" THEN file.bridge ELSE None
FileUser == IF file.cond = "valid" THEN file.user ELSE None

\* cli value if present, else config value, else absent
WantedBridge ==
    IF args.bridge # None THEN args.bridge
    ELSE IF FileBridge # None THEN FileBridge ELSE None
WantedUser ==
    IF args.user # None THEN args.user
    ELSE IF FileUser # None THEN FileUser ELSE None

\* the register_user calls and sleeps of the run, in order
LoopEvents == SelectSeq(trace, LAMBDA e : e.op \in {"register_user", "sleep"})

\* C1: when the bridge answers link-button-not-pressed N times and then
\* succeeds, a finished register_loop has called register_user N+1 times,
\* has slept N times for 5 seconds, each sleep right after a
\* link-button-not-pressed answer and before the next call, has printed no
\* failure, and returns the token of answer N+1.
C1_RegisterLoopRetries ==
    (/\ args.cmd = "register"
     /\ pc = "done"
     /\ regBridge # None
     /\ bridgeAnswers[Len(bridgeAnswers)].kind = "Ok")
    => LET n == Len(bridgeAnswers) - 1 IN
       /\ Len(Ops("register_user")) = n + 1
       /\ Len(Ops("sleep")) = n
       /\ Len(LoopEvents) = (2 * n) + 1
       /\ \A i \in 1..Len(LoopEvents) :
            IF i % 2 = 1
            THEN /\ LoopEvents[i].op = "register_user"
                 /\ LoopEvents[i].resp = bridgeAnswers[(i + 1) \div 2]
            ELSE /\ LoopEvents[i].op = "sleep"
                 /\ LoopEvents[i].arg = RetrySecs
                 /\ LoopEvents[i - 1].resp.kind = "LinkButtonNotPressed"
       /\ result = Some(bridgeAnswers[n + 1].user)
       /\ ~Printed("Failto register user")
       /\ Printed("Successfully user regestered")

C1_Witness ==
    /\ args.cmd = "register"
    /\ pc = "done"
    /\ Len(bridgeAnswers) >= 3
    /\ result = Some(bridgeAnswers[Len(bridgeAnswers)].user)
    /\ Len(Ops("sleep")) >= 2

\* C2: once register_user has answered with an error other than
\* link-button-not-pressed, that call is the last event of the run: no sleep
\* and no further call follows, the run is over, the error is printed and no
\* user token is returned.
C2_OtherErrorIsFatal ==
    \A i \in 1..Len(trace) :
        (trace[i].op = "register_user" /\ trace[i].resp.kind = "Other")
        => /\ i = Len(trace)
           /\ pc = "done"
           /\ result = None
           /\ out[Len(out)] = <<"Failto register user", "Unexpected error occured">>
           /\ ~Printed("Successfully user regestered")

C2_Witness ==
    /\ pc = "done"
    /\ Len(trace) >= 3
    /\ trace[Len(trace)].op = "register_user"
    /\ trace[Len(trace)].resp.kind = "Other"
    /\ Len(Ops("sleep")) >= 1

\* C3: for show and light, once dispatched, the bridge address and the user
\* token handed to the bridge client are, each on its own, the command-line
\* value if present, else the configuration value if present; every bridge
\* call of the run carries exactly these values, and with either absent no
\* bridge client is built.
C3_ConfigResolution ==
    (args.cmd \in {"show", "light"} /\ Dispatched)
    => IF WantedBridge # None /\ WantedUser # None
       THEN /\ target = Some(<<WantedBridge[1], WantedUser[1]>>)
            /\ \A i \in 1..Len(trace) :
                 /\ trace[i].bridge = WantedBridge[1]
                 /\ trace[i].user = WantedUser[1]
       ELSE target = None

C3_Witness ==
    /\ args.cmd = "show"
    /\ pc = "done"
    /\ args.bridge = None
    /\ FileBridge # None
    /\ args.user # None
    /\ FileUser # None
    /\ Len(trace) = 1
    /\ trace[1].bridge = FileBridge[1]
    /\ trace[1].user = args.user[1]

\* the distinct elements of a list, in order of first occurrence
RECURSIVE Uniq(_)
Uniq(v) ==
    IF v = <<>> THEN <<>>
    ELSE LET init == Uniq(SubSeq(v, 1, Len(v) - 1))
             x == v[Len(v)]
         IN IF \E i \in 1..Len(init) : init[i] = x THEN init ELSE Append(init, x)

\* C4: the list the discover command prints holds each distinct address the
\* discovery returned exactly once, in order of first occurrence.
C4_DiscoverDeduplicates ==
    (args.cmd = "discover" /\ pc = "done" /\ Dispatched)
    => /\ Len(trace) = 1
       /\ out[Len(out)] = <<"Hue bridges found", Uniq(trace[1].resp.ips)>>

\* a collaborator call of the run failed with an error that is not retried
CollaboratorFailed ==
    \E i \in 1..Len(trace) :
        \/ trace[i].op = "register_user" /\ trace[i].resp.kind = "Other"
        \/ /\ trace[i].op \in {"discover_upnp", "get_light", "get_all_lights",
                               "set_light_state"}
           /\ ~trace[i].resp.ok

\* C5: no run of any command panics, and a run in which a collaborator call
\* failed (other than link-button-not-pressed) ends normally with an error
\* printed.
C5_ErrorsEndGracefully ==
    /\ pc # "panic"
    /\ CollaboratorFailed
       => /\ pc = "done"
          /\ Printed("Error") \/ Printed("Failto register user")

\* the command field a flag must produce: absent when the flag is absent
Given(flag) == flag # None

\* C6: a dispatched light command with bridge and user resolved sends exactly
\* one set_light_state, for the given id, whose command has a field present
\* exactly when its flag was given, with the given value for on/off, bri, hue
\* and sat.
C6_OnlyGivenFieldsSent ==
    (/\ args.cmd = "light"
     /\ Dispatched
     /\ WantedBridge # None
     /\ WantedUser # None)
    => /\ Len(trace) = 1
       /\ trace[1].op = "set_light_state"
       /\ trace[1].id = args.id[1]
       /\ LET c == trace[1].arg
              st == args.state
          IN /\ Given(c.on) <=> Given(st.turn)
             /\ Given(st.turn) => c.on = Some(st.turn[1] = "on")
             /\ c.bri = st.bri
             /\ c.hue = st.hue
             /\ c.sat = st.sat
             /\ Given(c.ct) <=> Given(st.ct)

\* 10,000,000 / k rounded to the nearest integer
Rounded(k) == ((2 * TenMillion) + k) \div (2 * k)

\* C7: the color-temperature field of the command light_set sends for --ct K
\* is round(10,000,000 / K), a value of the 16-bit mired field.
C7_MiredIsRounded ==
    \A i \in 1..Len(trace) :
        (trace[i].op = "set_light_state" /\ args.state.ct # None)
        => /\ trace[i].arg.ct = Some(Rounded(args.state.ct[1]))
           /\ Rounded(args.state.ct[1]) < U16

\* C8: for show and light, once dispatched with the resolved bridge or the
\* resolved user absent, the run has ended normally, has printed the
\* user-visible error and has made no bridge call.
C8_MissingBridgeOrUser ==
    (/\ args.cmd \in {"show", "light"}
     /\ Dispatched
     /\ (WantedBridge = None \/ WantedUser = None))
    => /\ pc = "done"
       /\ trace = <<>>
       /\ target = None
       /\ out = <<<<"User and bridge must be specified">>>>

C8_Witness ==
    /\ args.cmd = "light"
    /\ pc = "done"
    /\ conf.ok
    /\ WantedBridge # None
    /\ WantedUser = None
    /\ out = <<<<"User and bridge must be specified">>>>

\* C9: register with --bridge never discovers; register without --bridge
\* discovers exactly once, before any register_user call; when the discovery
\* fails or finds nothing the run ends with the failure printed and no
\* register_user call; otherwise every register_user call goes to the first
\* discovered address.
C9_RegisterDiscovery ==
    args.cmd = "register"
    => /\ args.bridge # None => Ops("discover_upnp") = <<>>
       /\ (args.bridge = None /\ trace # <<>>)
          => /\ trace[1].op = "discover_upnp"
             /\ Len(Ops("discover_upnp")) = 1
             /\ IF trace[1].resp.ok /\ trace[1].resp.ips # <<>>
                THEN \A i \in 1..Len(trace) :
                        trace[i].op = "register_user"
                        => trace[i].bridge = trace[1].resp.ips[1]
                ELSE /\ Len(trace) = 1
                     /\ pc = "done"
                     /\ result = None
                     /\ Len(out) = 1
                     /\ out[1][1] = "Failto register user"

C9_Witness ==
    /\ args.cmd = "register"
    /\ args.bridge = None
    /\ pc = "done"
    /\ result # None
    /\ Len(trace[1].resp.ips) >= 2
    /\ trace[1].resp.ips[1] # trace[1].resp.ips[Len(trace[1].resp.ips)]
    /\ trace[Len(trace)].bridge = trace[1].resp.ips[1]

\* C10: with the configuration file missing or malformed the loaded
\* configuration is empty, no configuration error is printed and the command
\* is dispatched; when loading fails otherwise the error is printed and no
\* collaborator is called.
C10_BadFileIsEmptyConfig ==
    pc # "main"
    => /\ file.cond \in {"missing", "malformed"}
          => /\ conf = no_config
             /\ ~Printed("Configuration error")
       /\ ~conf.ok
          => /\ pc = "done"
             /\ out = <<<<"Configuration error">>>>
             /\ trace = <<>>

====
